---- MODULE Spec2Model ----
(***************************************************************************)
(* Model of the ingestion script src/ingest.py: the directory listing      *)
(* printDirectory, and main's pipeline validate -> scan -> load -> split   *)
(* -> embed/persist.  main delegates three stages to library classes       *)
(* (DirectoryLoader, RecursiveCharacterTextSplitter, Chroma); each is      *)
(* modelled by the algorithm of the class main instantiates, with the      *)
(* arguments main passes.                                                  *)
(*                                                                         *)
(* Text is a sequence of one-character strings.                            *)
(***************************************************************************)
EXTENDS Integers, Sequences, FiniteSets, TLC

VARIABLES
    \* ---- the text splitter applied to a batch of documents (SplitSpec)
    s_documents, s_size, s_overlap, s_chunks, s_pc,
    \* ---- printDirectory on a directory tree (ScanSpec)
    w_tree, w_flag, w_out, w_pc,
    \* ---- the ingestion run (Spec)
    env,            \* which of the three settings the .env file defines
    vault,          \* what VAULT_PATH names: its kind, its tree, and what
                    \* parsing each markdown file gives
    max_batch_size, \* the largest batch the store client accepts
    store,          \* the records of the collection at CHROMA_PATH
    collection,     \* whether the collection at CHROMA_PATH exists
    pc,             \* where the process is
    run,            \* the number of the current invocation
    report,         \* what printDirectory reported in this run
    documents,      \* main's documents
    chunks,         \* main's chunks
    next,           \* from_documents: the first chunk of the next batch
    embed_calls,    \* the outcomes of this run's embedding calls
    store_calls,    \* this run's calls on the store: "open", "upsert"
    stages,         \* the stages this run has executed, in order
    store0          \* the store as this run found it

splitVars == <<s_documents, s_size, s_overlap, s_chunks, s_pc>>
scanVars == <<w_tree, w_flag, w_out, w_pc>>
fixedVars == <<env, vault, max_batch_size>>
runVars == <<store, collection, pc, run, report, documents, chunks, next,
             embed_calls, store_calls, stages, store0>>
pipeVars == <<fixedVars, runVars>>
vars == <<splitVars, scanVars, pipeVars>>

NoReport == [totalFiles |-> 0, mdFiles |-> 0, files |-> <<>>]

\* The values of a part of the state that a specification does not use.
SplitOff ==
    /\ s_documents = <<>> /\ s_size = 0 /\ s_overlap = 0
    /\ s_chunks = <<>> /\ s_pc = "off"
ScanOff ==
    /\ w_tree = <<>> /\ w_flag = FALSE /\ w_out = NoReport /\ w_pc = "off"
PipelineOff ==
    /\ env = <<>> /\ vault = <<>> /\ max_batch_size = 0
    /\ store = <<>> /\ collection = FALSE /\ pc = "off" /\ run = 0
    /\ report = NoReport /\ documents = <<>> /\ chunks = <<>> /\ next = 0
    /\ embed_calls = <<>> /\ store_calls = <<>> /\ stages = <<>>
    /\ store0 = <<>>

(***************************************************************************)
(* Bounds of the model.                                                    *)
(***************************************************************************)
MaxDocLen == 5
MaxChunkSize == 4
MaxFilesPerDir == 2
MaxBatchSize == 2
MaxRuns == 2

(***************************************************************************)
(* The arguments main passes to RecursiveCharacterTextSplitter.            *)
(***************************************************************************)
main_chunk_size == 1000
main_chunk_overlap == 200

(***************************************************************************)
(* Helpers on text.                                                        *)
(***************************************************************************)
NL == "\n"
SP == " "
Whitespace == {SP, NL}

\* A Document: its text and the metadata naming its source.
Document(text, source) ==
    [page_content |-> text, metadata |-> [source |-> source]]

\* The text of n characters c.
Run(n, c) == [i \in 1..n |-> c]

\* str.strip(): leading and trailing whitespace removed.
strip(text) ==
    IF \A i \in 1..Len(text) : text[i] \in Whitespace
    THEN <<>>
    ELSE LET first == CHOOSE i \in 1..Len(text) :
                          /\ text[i] \notin Whitespace
                          /\ \A j \in 1..(i - 1) : text[j] \in Whitespace
             last == CHOOSE i \in 1..Len(text) :
                          /\ text[i] \notin Whitespace
                          /\ \A j \in (i + 1)..Len(text) : text[j] \in Whitespace
         IN SubSeq(text, first, last)

\* separator.join(docs)
RECURSIVE join(_, _)
join(docs, separator) ==
    IF docs = <<>> THEN <<>>
    ELSE IF Len(docs) = 1 THEN docs[1]
    ELSE docs[1] \o separator \o join(Tail(docs), separator)

\* re.search(re.escape(sep), text) from position p on: the least match
\* position, 0 when there is none.
search(sep, text, p) ==
    LET hits == {i \in p..(Len(text) - Len(sep) + 1) :
                    SubSeq(text, i, i + Len(sep) - 1) = sep}
    IN IF hits = {} THEN 0
       ELSE CHOOSE i \in hits : \A j \in hits : i <= j

\* The start positions of the leftmost non-overlapping matches of sep.
RECURSIVE matches(_, _, _)
matches(sep, text, p) ==
    LET m == search(sep, text, p)
    IN IF m = 0 THEN <<>> ELSE <<m>> \o matches(sep, text, m + Len(sep))

\* _split_text_with_regex(text, separator, keep_separator=True): each
\* separator stays at the start of the piece that follows it; empty pieces
\* are dropped.  An empty separator splits into characters.
split_text_with_regex(text, separator) ==
    LET NonEmpty(s) == s # <<>>
    IN IF separator = <<>>
       THEN [i \in 1..Len(text) |-> <<text[i]>>]
       ELSE LET ms == matches(separator, text, 1)
                n == Len(ms)
                head == IF n = 0 THEN text ELSE SubSeq(text, 1, ms[1] - 1)
                rest == [k \in 1..n |->
                           SubSeq(text, ms[k],
                                  IF k = n THEN Len(text) ELSE ms[k + 1] - 1)]
            IN SelectSeq(<<head>> \o rest, NonEmpty)

\* Variant of join_docs: strip_whitespace left off.
join_docs_keep_whitespace(docs, separator) ==
    LET text == join(docs, separator)
    IN IF text = <<>> THEN <<>> ELSE <<text>>

\* TextSplitter._join_docs with strip_whitespace=True: the joined text
\* stripped; no chunk (None) when that is empty.  Returned as a sequence of
\* zero or one chunk.
join_docs(docs, separator) ==
    LET text == strip(join(docs, separator))
    IN IF text = <<>> THEN <<>> ELSE <<text>>

\* Variant of pop_front: pieces are dropped only down to chunk_overlap,
\* whether or not the next piece then fits.
RECURSIVE pop_front_overlap_only(_, _, _, _, _, _)
pop_front_overlap_only(current_doc, total, len, separator_len, chunk_size, chunk_overlap) ==
    IF total > chunk_overlap
    THEN pop_front_overlap_only(
             Tail(current_doc),
             total - (Len(current_doc[1])
                      + (IF Len(current_doc) > 1 THEN separator_len ELSE 0)),
             len, separator_len, chunk_size, chunk_overlap)
    ELSE [current_doc |-> current_doc, total |-> total]

\* Variant of pop_front: every piece is dropped, so nothing overlaps.
pop_front_all(current_doc, total, len, separator_len, chunk_size, chunk_overlap) ==
    [current_doc |-> <<>>, total |-> 0]

\* The while loop of _merge_splits: drop pieces from the front of
\* current_doc until at most chunk_overlap characters are kept and the next
\* piece fits.
RECURSIVE pop_front(_, _, _, _, _, _)
pop_front(current_doc, total, len, separator_len, chunk_size, chunk_overlap) ==
    IF \/ total > chunk_overlap
       \/ /\ total + len + (IF Len(current_doc) > 0 THEN separator_len ELSE 0)
                > chunk_size
          /\ total > 0
    THEN pop_front(Tail(current_doc),
                   total - (Len(current_doc[1])
                            + (IF Len(current_doc) > 1 THEN separator_len ELSE 0)),
                   len, separator_len, chunk_size, chunk_overlap)
    ELSE [current_doc |-> current_doc, total |-> total]

\* The for loop of _merge_splits from piece i on.
RECURSIVE merge_loop(_, _, _, _, _, _, _, _)
merge_loop(splits, i, docs, current_doc, total, separator, chunk_size, chunk_overlap) ==
    IF i > Len(splits)
    THEN docs \o join_docs(current_doc, separator)
    ELSE LET d == splits[i]
             len == Len(d)
             separator_len == Len(separator)
             over == total + len
                       + (IF Len(current_doc) > 0 THEN separator_len ELSE 0)
                     > chunk_size
             flush == over /\ Len(current_doc) > 0
             docs1 == IF flush THEN docs \o join_docs(current_doc, separator)
                      ELSE docs
             kept == IF flush
                     THEN pop_front(current_doc, total, len, separator_len,
                                    chunk_size, chunk_overlap)
                     ELSE [current_doc |-> current_doc, total |-> total]
             current1 == Append(kept.current_doc, d)
             total1 == kept.total + len
                         + (IF Len(current1) > 1 THEN separator_len ELSE 0)
         IN merge_loop(splits, i + 1, docs1, current1, total1,
                       separator, chunk_size, chunk_overlap)

\* TextSplitter._merge_splits
merge_splits(splits, separator, chunk_size, chunk_overlap) ==
    merge_loop(splits, 1, <<>>, <<>>, 0, separator, chunk_size, chunk_overlap)

\* RecursiveCharacterTextSplitter's default separators: paragraph, line,
\* word, character.
separators == << <<NL, NL>>, <<NL>>, <<SP>>, <<>> >>

\* The separator _split_text picks: the first that is empty or occurs in
\* the text, with the separators after it; the last one when none does.
pick_separator(text, seps) ==
    LET found == {i \in 1..Len(seps) :
                     seps[i] = <<>> \/ search(seps[i], text, 1) # 0}
    IN IF found = {}
       THEN [separator |-> seps[Len(seps)], new_separators |-> <<>>]
       ELSE LET i == CHOOSE k \in found : \A j \in found : k <= j
            IN [separator |-> seps[i],
                new_separators |-> IF seps[i] = <<>> THEN <<>>
                                   ELSE SubSeq(seps, i + 1, Len(seps))]

\* RecursiveCharacterTextSplitter._split_text (keep_separator=True, so the
\* pieces are merged with the empty separator).
RECURSIVE split_text(_, _, _, _)
RECURSIVE split_loop(_, _, _, _, _, _, _)
split_loop(splits, i, good_splits, final_chunks, new_separators, chunk_size, chunk_overlap) ==
    IF i > Len(splits)
    THEN IF good_splits # <<>>
         THEN final_chunks \o merge_splits(good_splits, <<>>, chunk_size, chunk_overlap)
         ELSE final_chunks
    ELSE LET s == splits[i]
         IN IF Len(s) < chunk_size
            THEN split_loop(splits, i + 1, Append(good_splits, s), final_chunks,
                            new_separators, chunk_size, chunk_overlap)
            ELSE LET merged == IF good_splits # <<>>
                               THEN final_chunks
                                      \o merge_splits(good_splits, <<>>,
                                                      chunk_size, chunk_overlap)
                               ELSE final_chunks
                     other == IF new_separators = <<>>
                              THEN <<s>>
                              ELSE split_text(s, new_separators,
                                              chunk_size, chunk_overlap)
                 IN split_loop(splits, i + 1, <<>>, merged \o other,
                               new_separators, chunk_size, chunk_overlap)

split_text(text, seps, chunk_size, chunk_overlap) ==
    LET pick == pick_separator(text, seps)
        splits == split_text_with_regex(text, pick.separator)
    IN split_loop(splits, 1, <<>>, <<>>, pick.new_separators,
                  chunk_size, chunk_overlap)

\* TextSplitter.create_documents / split_documents: each document is split
\* on its own and every chunk carries its document's metadata.
RECURSIVE split_documents(_, _, _)
split_documents(docs, chunk_size, chunk_overlap) ==
    IF docs = <<>> THEN <<>>
    ELSE LET doc == docs[1]
             texts == split_text(doc.page_content, separators,
                                 chunk_size, chunk_overlap)
         IN [k \in 1..Len(texts) |->
                [page_content |-> texts[k], metadata |-> doc.metadata]]
            \o split_documents(Tail(docs), chunk_size, chunk_overlap)

(***************************************************************************)
(* SplitSpec: the splitter as a function of (documents, chunk_size,        *)
(* chunk_overlap).  The inputs are every text of at most MaxDocLen         *)
(* characters over {letter, space, newline} (the letter at position i is   *)
(* Letters[i], so that a repeated character sequence is a real overlap),   *)
(* alone or followed by a second document, with 2 <= chunk_size <=         *)
(* MaxChunkSize and chunk_overlap < chunk_size; and one document of 2500   *)
(* characters in four paragraphs with main's own chunk_size and            *)
(* chunk_overlap.                                                          *)
(***************************************************************************)
Letters == <<"a", "b", "c", "d", "e", "f", "g", "h">>
Symbols == {"L", SP, NL}
TextOf(p) == [i \in 1..Len(p) |-> IF p[i] = "L" THEN Letters[i] ELSE p[i]]
Texts(n) == {TextOf(p) : p \in UNION {[1..k -> Symbols] : k \in 0..n}}
SecondText == <<"x", SP, "y", "z">>
Paragraphs2500 ==
    Run(624, "a") \o <<NL, NL>> \o Run(624, "b") \o <<NL, NL>>
      \o Run(623, "c") \o <<NL, NL>> \o Run(623, "d")

SplitInit ==
    /\ \/ /\ s_size \in 2..MaxChunkSize
          /\ s_overlap \in 0..(s_size - 1)
          /\ \E t \in Texts(MaxDocLen) :
                \/ s_documents = <<Document(t, 1)>>
                \/ s_documents = <<Document(t, 1), Document(SecondText, 2)>>
       \/ /\ s_size = main_chunk_size
          /\ s_overlap = main_chunk_overlap
          /\ s_documents = <<Document(Paragraphs2500, 1)>>
    /\ s_chunks = <<>>
    /\ s_pc = "ready"
    /\ ScanOff
    /\ PipelineOff

\* chunks = textSplitter.split_documents(documents=documents)
Split ==
    /\ s_pc = "ready"
    /\ s_chunks' = split_documents(s_documents, s_size, s_overlap)
    /\ s_pc' = "split"
    /\ UNCHANGED <<s_documents, s_size, s_overlap>>
    /\ UNCHANGED <<scanVars, pipeVars>>

SplitNext == Split
SplitSpec == SplitInit /\ [][SplitNext]_vars

(***************************************************************************)
(* printDirectory(path, printOnlyMd).  os.walk yields one entry per        *)
(* directory under the root, each with the names of its non-directory      *)
(* entries; a tree is that sequence of [dirpath, filenames] entries.  The  *)
(* result is what the function reports: the two totals and the listing.    *)
(***************************************************************************)
\* Variant of endswith: the suffix may occur anywhere in the name.
endswith_anywhere(name, suffix) ==
    \E i \in 1..(Len(name) - Len(suffix) + 1) :
        SubSeq(name, i, i + Len(suffix) - 1) = suffix

\* str.endswith
endswith(name, suffix) ==
    /\ Len(name) >= Len(suffix)
    /\ SubSeq(name, Len(name) - Len(suffix) + 1, Len(name)) = suffix

DotMd == <<".", "m", "d">>

\* os.path.join(dirpath, filename)
path_join(dirpath, filename) == dirpath \o <<"/">> \o filename

\* The body of the inner loop for one filename.
visit_file(acc, dirpath, filename, printOnlyMd) ==
    LET filePath == path_join(dirpath, filename)
        isMd == endswith(filename, DotMd)
        files1 == IF isMd /\ printOnlyMd THEN Append(acc.files, filePath)
                  ELSE acc.files
        files2 == IF ~printOnlyMd THEN Append(files1, filePath) ELSE files1
    IN [totalFiles |-> acc.totalFiles + 1,
        mdFiles |-> IF isMd THEN acc.mdFiles + 1 ELSE acc.mdFiles,
        files |-> files2]

\* for filename in filenames
RECURSIVE walk_files(_, _, _, _, _)
walk_files(acc, dirpath, filenames, i, printOnlyMd) ==
    IF i > Len(filenames) THEN acc
    ELSE walk_files(visit_file(acc, dirpath, filenames[i], printOnlyMd),
                    dirpath, filenames, i + 1, printOnlyMd)

\* for dirpath, _, filenames in os.walk(path)
RECURSIVE walk_dirs(_, _, _, _)
walk_dirs(acc, tree, d, printOnlyMd) ==
    IF d > Len(tree) THEN acc
    ELSE walk_dirs(walk_files(acc, tree[d].dirpath, tree[d].filenames, 1,
                              printOnlyMd),
                   tree, d + 1, printOnlyMd)

printDirectory(tree, printOnlyMd) ==
    walk_dirs(NoReport, tree, 1, printOnlyMd)

(***************************************************************************)
(* ScanSpec: printDirectory on every tree of two directories (the root     *)
(* and one subdirectory), each holding at most MaxFilesPerDir distinctly   *)
(* named files, with either value of the flag.                             *)
(***************************************************************************)
AMd == <<"a", ".", "m", "d">>
BTxt == <<"b", ".", "t", "x", "t">>
CMd == <<"c", ".", "m", "d">>
DMd == <<"d", ".", "m", "d">>
FileNames ==
    { AMd, BTxt, <<".", "m", "d">>, <<"m", "d">>,
      <<"c", ".", "m", "d", ".", "t", "x", "t">> }

RootPath == <<"v">>
SubPath == <<"v", "/", "s">>

\* The listings a directory can have: distinct names, in any order.
Listings ==
    {l \in UNION {[1..n -> FileNames] : n \in 0..MaxFilesPerDir} :
        \A i, j \in 1..Len(l) : i # j => l[i] # l[j]}

Trees ==
    { << [dirpath |-> RootPath, filenames |-> l1],
         [dirpath |-> SubPath, filenames |-> l2] >> : l1, l2 \in Listings }

ScanInit ==
    /\ w_tree \in Trees
    /\ w_flag \in BOOLEAN
    /\ w_out = NoReport
    /\ w_pc = "ready"
    /\ SplitOff
    /\ PipelineOff

Scan ==
    /\ w_pc = "ready"
    /\ w_out' = printDirectory(w_tree, w_flag)
    /\ w_pc' = "done"
    /\ UNCHANGED <<w_tree, w_flag>>
    /\ UNCHANGED <<splitVars, pipeVars>>

ScanNext == Scan
ScanSpec == ScanInit /\ [][ScanNext]_vars

(***************************************************************************)
(* DirectoryLoader(path=VAULT_PATH, glob="**/*.md",                        *)
(* loader_cls=UnstructuredMarkdownLoader, use_multithreading=False,        *)
(* silent_errors=...).load()                                               *)
(***************************************************************************)
\* Path.parts: the components of a path between its "/".
parts(path) ==
    LET ms == matches(<<"/">>, path, 1)
        n == Len(ms)
        NonEmpty(x) == x # <<>>
    IN SelectSeq([k \in 1..(n + 1) |->
                     SubSeq(path,
                            IF k = 1 THEN 1 ELSE ms[k - 1] + 1,
                            IF k = n + 1 THEN Len(path) ELSE ms[k] - 1)],
                 NonEmpty)

\* item.relative_to(path)
relative_to(item, root) == SubSeq(item, Len(root) + 2, Len(item))

\* _is_visible: no component of the path starts with a dot.
is_visible(p) == \A k \in 1..Len(parts(p)) : parts(p)[k][1] # "."

\* The files of one directory that match "*.md", as paths.
glob_dir(dir) ==
    LET IsMd(name) == endswith(name, DotMd)
        names == SelectSeq(dir.filenames, IsMd)
    IN [i \in 1..Len(names) |-> path_join(dir.dirpath, names[i])]

\* p.glob("**/*.md"): the matching files of every directory of the tree.
RECURSIVE glob_items(_, _)
glob_items(tree, d) ==
    IF d > Len(tree) THEN <<>>
    ELSE glob_dir(tree[d]) \o glob_items(tree, d + 1)

\* Variant of lazy_load: a parse failure is passed over whatever
\* silent_errors says.
RECURSIVE lazy_load_swallow(_, _, _, _, _)
lazy_load_swallow(items, i, root, parsed, silent_errors) ==
    IF i > Len(items) THEN [raised |-> FALSE, documents |-> <<>>]
    ELSE LET item == items[i]
             rest == lazy_load_swallow(items, i + 1, root, parsed,
                                       silent_errors)
         IN IF ~is_visible(relative_to(item, root)) THEN rest
            ELSE IF ~parsed[item].ok THEN rest
            ELSE [raised |-> FALSE,
                  documents |-> <<Document(parsed[item].text, item)>>
                                  \o rest.documents]

\* The loop of lazy_load over the items from the i-th on: a hidden item is
\* passed over; an item that fails to parse is passed over when
\* silent_errors is set and aborts the load otherwise.
RECURSIVE lazy_load(_, _, _, _, _)
lazy_load(items, i, root, parsed, silent_errors) ==
    IF i > Len(items) THEN [raised |-> FALSE, documents |-> <<>>]
    ELSE LET item == items[i]
             rest == lazy_load(items, i + 1, root, parsed, silent_errors)
         IN IF ~is_visible(relative_to(item, root)) THEN rest
            ELSE IF ~parsed[item].ok
                 THEN IF silent_errors THEN rest
                      ELSE [raised |-> TRUE, documents |-> <<>>]
            ELSE IF rest.raised THEN rest
            ELSE [raised |-> FALSE,
                  documents |-> <<Document(parsed[item].text, item)>>
                                  \o rest.documents]

\* loader.load(): what it returns, or that it raised.  A path that is not a
\* directory raises.
load(v, root, silent_errors) ==
    IF v.kind # "dir" THEN [raised |-> TRUE, documents |-> <<>>]
    ELSE lazy_load(glob_items(v.tree, 1), 1, root, v.parsed, silent_errors)

(***************************************************************************)
(* Chroma.from_documents(documents=chunks, embedding=embeddings,           *)
(* persist_directory=CHROMA_PATH): the collection is opened (created when  *)
(* absent), every chunk gets a fresh id, and the chunks are added batch by *)
(* batch of at most max_batch_size: each batch is embedded by one call of  *)
(* the embedding service and then upserted.                                *)
(***************************************************************************)
Min(a, b) == IF a <= b THEN a ELSE b

\* The chunk indices of the batch that starts at chunk `first`.
batch(first, n, size) == first..Min(first + size - 1, n)

\* The record of the k-th chunk of a run; ids are fresh (uuid4).
Record(r, k, chunk) ==
    [id |-> <<r, k>>, page_content |-> chunk.page_content,
     metadata |-> chunk.metadata]

\* Variant of upsert: a record replaces the stored records of the same text
\* and metadata.
upsert_by_content(st, r, cs, first, size) ==
    LET new == [j \in 1..Cardinality(batch(first, Len(cs), size)) |->
                   Record(r, first + j - 1, cs[first + j - 1])]
        Other(x) == \A j \in 1..Len(new) :
                        \/ x.page_content # new[j].page_content
                        \/ x.metadata # new[j].metadata
    IN SelectSeq(st, Other) \o new

\* collection.upsert of the records of the batch starting at `first`.
upsert(st, r, cs, first, size) ==
    st \o [j \in 1..Cardinality(batch(first, Len(cs), size)) |->
              Record(r, first + j - 1, cs[first + j - 1])]

(***************************************************************************)
(* Spec: invocations of the script on a fixed vault.                       *)
(***************************************************************************)
Settings == {"OBSIDIAN_VAULT_PATH", "CHROMA_DB_PATH", "OLLAMA_EMBEDDING_MODEL"}
Envs == {Settings} \cup {Settings \ {x} : x \in Settings}

HiddenPath == <<"v", "/", ".", "o">>

\* What parsing a markdown file gives: a failure, a note of 600 characters
\* (four lines), or a note of two paragraphs of 600 characters each.
Note600 ==
    Run(150, "k") \o <<NL>> \o Run(149, "l") \o <<NL>> \o Run(149, "m")
      \o <<NL>> \o Run(149, "n")
TwoParagraphs == Run(600, "p") \o <<NL, NL>> \o Run(600, "q")
ParseError == [ok |-> FALSE, text |-> <<>>]
Parsed(text) == [ok |-> TRUE, text |-> text]
Outcomes == {ParseError, Parsed(Note600), Parsed(TwoParagraphs)}

VaultTrees ==
    { << [dirpath |-> RootPath, filenames |-> l1],
         [dirpath |-> SubPath, filenames |-> l2],
         [dirpath |-> HiddenPath, filenames |-> l3] >> :
        l1 \in {<<>>, <<AMd>>, <<BTxt>>, <<AMd, BTxt>>},
        l2 \in {<<>>, <<CMd>>},
        l3 \in {<<>>, <<DMd>>} }

MdPaths(tree) ==
    {glob_items(tree, 1)[i] : i \in 1..Len(glob_items(tree, 1))}

Vaults ==
    {[kind |-> k, tree |-> <<>>, parsed |-> <<>>] : k \in {"absent", "file"}}
    \cup UNION {{[kind |-> "dir", tree |-> t, parsed |-> f] :
                    f \in [MdPaths(t) -> Outcomes]} : t \in VaultTrees}

Init ==
    /\ env \in Envs
    /\ vault \in Vaults
    /\ max_batch_size \in 1..MaxBatchSize
    /\ store = <<>>
    /\ collection = FALSE
    /\ pc = "import"
    /\ run = 1
    /\ report = NoReport
    /\ documents = <<>>
    /\ chunks = <<>>
    /\ next = 0
    /\ embed_calls = <<>>
    /\ store_calls = <<>>
    /\ stages = <<>>
    /\ store0 = <<>>
    /\ SplitOff
    /\ ScanOff

\* Module level: load_dotenv, and a ValueError for a setting that is missing.
LoadEnv ==
    /\ pc = "import"
    /\ pc' = IF env = Settings THEN "main" ELSE "raised_config"
    /\ UNCHANGED <<store, collection, run, report, documents, chunks, next,
                   embed_calls, store_calls, stages, store0>>
    /\ UNCHANGED <<fixedVars, splitVars, scanVars>>

\* Variant of ValidatePath: the early return is missing.
ValidatePath_NoReturn ==
    /\ pc = "main"
    /\ pc' = "validated"
    /\ UNCHANGED <<store, collection, run, report, documents, chunks, next,
                   embed_calls, store_calls, stages, store0>>
    /\ UNCHANGED <<fixedVars, splitVars, scanVars>>

\* main: os.path.exists(VAULT_PATH), and the early return.
ValidatePath ==
    /\ pc = "main"
    /\ pc' = IF vault.kind = "absent" THEN "returned_invalid_path"
             ELSE "validated"
    /\ UNCHANGED <<store, collection, run, report, documents, chunks, next,
                   embed_calls, store_calls, stages, store0>>
    /\ UNCHANGED <<fixedVars, splitVars, scanVars>>

\* main: printDirectory(path=VAULT_PATH, printOnlyMd=True)
ScanVault ==
    /\ pc = "validated"
    /\ report' = printDirectory(vault.tree, TRUE)
    /\ stages' = Append(stages, "scan")
    /\ pc' = "scanned"
    /\ UNCHANGED <<store, collection, run, documents, chunks, next,
                   embed_calls, store_calls, store0>>
    /\ UNCHANGED <<fixedVars, splitVars, scanVars>>

\* Variant of LoadDocuments: the early return on no documents is missing.
LoadDocuments_NoEmptyCheck ==
    /\ pc = "scanned"
    /\ LET loaded == load(vault, RootPath, FALSE)
       IN /\ documents' = loaded.documents
          /\ pc' = IF loaded.raised THEN "raised_load" ELSE "loaded"
    /\ stages' = Append(stages, "load")
    /\ UNCHANGED <<store, collection, run, report, chunks, next,
                   embed_calls, store_calls, store0>>
    /\ UNCHANGED <<fixedVars, splitVars, scanVars>>

\* main: documents = loader.load() with silent_errors=False, and the early
\* return when there are none.
LoadDocuments ==
    /\ pc = "scanned"
    /\ LET loaded == load(vault, RootPath, FALSE)
       IN /\ documents' = loaded.documents
          /\ pc' = IF loaded.raised THEN "raised_load"
                   ELSE IF loaded.documents = <<>> THEN "returned_no_documents"
                   ELSE "loaded"
    /\ stages' = Append(stages, "load")
    /\ UNCHANGED <<store, collection, run, report, chunks, next,
                   embed_calls, store_calls, store0>>
    /\ UNCHANGED <<fixedVars, splitVars, scanVars>>

\* main: chunks = textSplitter.split_documents(documents=documents)
SplitDocuments ==
    /\ pc = "loaded"
    /\ chunks' = split_documents(documents, main_chunk_size, main_chunk_overlap)
    /\ stages' = Append(stages, "split")
    /\ pc' = "split"
    /\ UNCHANGED <<store, collection, run, report, documents, next,
                   embed_calls, store_calls, store0>>
    /\ UNCHANGED <<fixedVars, splitVars, scanVars>>

\* main: OllamaEmbeddings(model=...), and from_documents opening the
\* collection at CHROMA_PATH.
OpenStore ==
    /\ pc = "split"
    /\ collection' = TRUE
    /\ store_calls' = Append(store_calls, "open")
    /\ next' = 1
    /\ pc' = "adding"
    /\ UNCHANGED <<store, run, report, documents, chunks, embed_calls,
                   stages, store0>>
    /\ UNCHANGED <<fixedVars, splitVars, scanVars>>

\* from_documents: the embedding call of the next batch succeeds.
EmbedBatch ==
    /\ pc = "adding"
    /\ next <= Len(chunks)
    /\ embed_calls' = Append(embed_calls, "ok")
    /\ stages' = Append(stages, "embed")
    /\ pc' = "embedded"
    /\ UNCHANGED <<store, collection, run, report, documents, chunks, next,
                   store_calls, store0>>
    /\ UNCHANGED <<fixedVars, splitVars, scanVars>>

\* Variant of EmbedBatchFails: the failure is caught and the batch is tried
\* again.
EmbedBatchFails_Retry ==
    /\ pc = "adding"
    /\ next <= Len(chunks)
    /\ Len(embed_calls) < 2 * MaxRuns
    /\ embed_calls' = Append(embed_calls, "failed")
    /\ stages' = Append(stages, "embed")
    /\ pc' = "adding"
    /\ UNCHANGED <<store, collection, run, report, documents, chunks, next,
                   store_calls, store0>>
    /\ UNCHANGED <<fixedVars, splitVars, scanVars>>

\* from_documents: the embedding call of the next batch fails (the service
\* is unreachable, times out or does not know the model); nothing catches
\* the exception.
EmbedBatchFails ==
    /\ pc = "adding"
    /\ next <= Len(chunks)
    /\ embed_calls' = Append(embed_calls, "failed")
    /\ stages' = Append(stages, "embed")
    /\ pc' = "raised_embed"
    /\ UNCHANGED <<store, collection, run, report, documents, chunks, next,
                   store_calls, store0>>
    /\ UNCHANGED <<fixedVars, splitVars, scanVars>>

\* Variant of UpsertBatch: the batch is written before it is embedded.
UpsertBatch_BeforeEmbed ==
    /\ pc = "adding"
    /\ next <= Len(chunks)
    /\ store' = upsert(store, run, chunks, next, max_batch_size)
    /\ store_calls' = Append(store_calls, "upsert")
    /\ stages' = Append(stages, "persist")
    /\ next' = next + max_batch_size
    /\ pc' = "adding"
    /\ UNCHANGED <<collection, run, report, documents, chunks, embed_calls,
                   store0>>
    /\ UNCHANGED <<fixedVars, splitVars, scanVars>>

\* from_documents: the embedded batch is upserted under its fresh ids.
UpsertBatch ==
    /\ pc = "embedded"
    /\ store' = upsert(store, run, chunks, next, max_batch_size)
    /\ store_calls' = Append(store_calls, "upsert")
    /\ stages' = Append(stages, "persist")
    /\ next' = next + max_batch_size
    /\ pc' = "adding"
    /\ UNCHANGED <<collection, run, report, documents, chunks, embed_calls,
                   store0>>
    /\ UNCHANGED <<fixedVars, splitVars, scanVars>>

\* from_documents returns after the last batch; main prints its summary.
Finish ==
    /\ pc = "adding"
    /\ next > Len(chunks)
    /\ pc' = "completed"
    /\ UNCHANGED <<store, collection, run, report, documents, chunks, next,
                   embed_calls, store_calls, stages, store0>>
    /\ UNCHANGED <<fixedVars, splitVars, scanVars>>

Terminated ==
    pc \in {"raised_config", "returned_invalid_path", "raised_load",
            "returned_no_documents", "raised_embed", "completed"}

\* The script is invoked again on the same vault and the same store.
Rerun ==
    /\ Terminated
    /\ run < MaxRuns
    /\ run' = run + 1
    /\ pc' = "import"
    /\ report' = NoReport
    /\ documents' = <<>>
    /\ chunks' = <<>>
    /\ next' = 0
    /\ embed_calls' = <<>>
    /\ store_calls' = <<>>
    /\ stages' = <<>>
    /\ store0' = store
    /\ UNCHANGED <<store, collection>>
    /\ UNCHANGED <<fixedVars, splitVars, scanVars>>

Next ==
    \/ LoadEnv
    \/ ValidatePath
    \/ ScanVault
    \/ LoadDocuments
    \/ SplitDocuments
    \/ OpenStore
    \/ EmbedBatch
    \/ EmbedBatchFails
    \/ UpsertBatch
    \/ Finish
    \/ Rerun

Spec == Init /\ [][Next]_vars

(***************************************************************************)
(* Vocabulary of the scanner claim: the files of a tree, stated without    *)
(* the walk.                                                               *)
(***************************************************************************)
\* A file of the tree: the pair (directory index, position in its listing).
Entries(tree) ==
    UNION {{<<d, i>> : i \in 1..Len(tree[d].filenames)} : d \in 1..Len(tree)}
NameOf(tree, e) == tree[e[1]].filenames[e[2]]
PathOf(tree, e) == tree[e[1]].dirpath \o <<"/">> \o NameOf(tree, e)
EndsInDotMd(name) ==
    /\ Len(name) >= 3
    /\ name[Len(name) - 2] = "."
    /\ name[Len(name) - 1] = "m"
    /\ name[Len(name)] = "d"
MdEntries(tree) == {e \in Entries(tree) : EndsInDotMd(NameOf(tree, e))}
Listed == {w_out.files[i] : i \in 1..Len(w_out.files)}

(***************************************************************************)
(* C8: printDirectory reports totalFiles = the number of files under the   *)
(* root and mdFiles = the number of those whose name ends in ".md"; the    *)
(* listing is exactly the ".md" files when the flag is true and exactly    *)
(* all files when it is false, so it has mdFiles or totalFiles entries,    *)
(* and mdFiles <= totalFiles; a root holding a.md and b.txt gives          *)
(* totalFiles=2 and mdFiles=1.                                             *)
(***************************************************************************)
C8_ScannerCounts ==
    w_pc = "done" =>
        /\ w_out.totalFiles = Cardinality(Entries(w_tree))
        /\ w_out.mdFiles = Cardinality(MdEntries(w_tree))
        /\ Listed = {PathOf(w_tree, e) :
                        e \in (IF w_flag THEN MdEntries(w_tree)
                               ELSE Entries(w_tree))}
        /\ Len(w_out.files) = (IF w_flag THEN w_out.mdFiles
                               ELSE w_out.totalFiles)
        /\ w_out.mdFiles <= w_out.totalFiles
        /\ (w_tree[1].filenames = <<AMd, BTxt>> /\ w_tree[2].filenames = <<>>)
              => (w_out.totalFiles = 2 /\ w_out.mdFiles = 1)

\* The walk of a root holding a.md and b.txt, and a subdirectory holding a
\* file whose name contains but does not end in ".md", has been reported
\* with the markdown-only flag set.
C8_Witness ==
    /\ w_pc = "done"
    /\ w_flag
    /\ w_tree[1].filenames = <<AMd, BTxt>>
    /\ Len(w_tree[2].filenames) = 1
    /\ ~EndsInDotMd(w_tree[2].filenames[1])
    /\ w_out.totalFiles = 3
    /\ w_out.mdFiles = 1
    /\ Len(w_out.files) = 1

(***************************************************************************)
(* Vocabulary of the splitter claims.                                      *)
(***************************************************************************)
\* The chunks of the k-th document, in order (every chunk carries its
\* document's metadata, and the documents have distinct sources).
ChunksOf(k) ==
    LET FromK(c) == c.metadata = s_documents[k].metadata
    IN SelectSeq(s_chunks, FromK)

ChunkTexts(k) == [i \in 1..Len(ChunksOf(k)) |-> ChunksOf(k)[i].page_content]

\* The longest suffix of c1 that is a prefix of c2.
Overlap(c1, c2) ==
    LET lens == {m \in 0..Len(c1) :
                    /\ m <= Len(c2)
                    /\ SubSeq(c1, Len(c1) - m + 1, Len(c1)) = SubSeq(c2, 1, m)}
    IN CHOOSE m \in lens : \A n \in lens : n <= m

\* The chunks concatenated in order with the overlaps removed.
RECURSIVE Reconstruct(_)
Reconstruct(texts) ==
    IF texts = <<>> THEN <<>>
    ELSE IF Len(texts) = 1 THEN texts[1]
    ELSE LET front == SubSeq(texts, 1, Len(texts) - 1)
             last == texts[Len(texts)]
             o == Overlap(texts[Len(texts) - 1], last)
         IN Reconstruct(front) \o SubSeq(last, o + 1, Len(last))

NonWhitespace(text) ==
    LET Solid(c) == c \notin Whitespace
    IN SelectSeq(text, Solid)

HasNoWhitespace(text) == \A i \in 1..Len(text) : text[i] \notin Whitespace

IsSubstring(c, text) ==
    \E i \in 1..(Len(text) - Len(c) + 1) : SubSeq(text, i, i + Len(c) - 1) = c

CeilDiv(a, b) == (a + b - 1) \div b

DocIndices == 1..Len(s_documents)
TextOfDoc(k) == s_documents[k].page_content
ShortDocs == {k \in DocIndices : Len(TextOfDoc(k)) <= s_size}
LongDocs == {k \in DocIndices : Len(TextOfDoc(k)) > s_size}

(***************************************************************************)
(* C5 as stated: a document of length L <= chunk_size yields exactly one   *)
(* chunk, whose text equals the document's text (with its metadata).       *)
(***************************************************************************)
C5_OneChunkEqualToDocument ==
    s_pc = "split" =>
        \A k \in ShortDocs : ChunksOf(k) = <<s_documents[k]>>

(***************************************************************************)
(* C5 amended: for chunk_size >= 2, a document of length L <= chunk_size   *)
(* yields exactly one chunk, whose text is the document's text with        *)
(* leading and trailing whitespace removed (with the document's            *)
(* metadata), and no chunk at all when the text is empty or all            *)
(* whitespace.                                                             *)
(***************************************************************************)
C5_OneChunkStripped ==
    s_pc = "split" =>
        \A k \in ShortDocs :
            ChunksOf(k) =
                IF strip(TextOfDoc(k)) = <<>> THEN <<>>
                ELSE <<[page_content |-> strip(TextOfDoc(k)),
                        metadata |-> s_documents[k].metadata]>>

\* A short document with whitespace around its text has been split into one
\* chunk that differs from the document's text.
C5_Witness ==
    /\ s_pc = "split"
    /\ \E k \in ShortDocs :
          /\ Len(ChunksOf(k)) = 1
          /\ TextOfDoc(k) # strip(TextOfDoc(k))
          /\ ChunkTexts(k)[1] = strip(TextOfDoc(k))

(***************************************************************************)
(* C6 as stated: every chunk has at most chunk_size characters, and a      *)
(* 2500-character document with chunk_size=1000 and chunk_overlap=200      *)
(* yields exactly 3 chunks.                                                *)
(***************************************************************************)
C6_CeilingAndThreeChunks ==
    s_pc = "split" =>
        /\ \A i \in 1..Len(s_chunks) : Len(s_chunks[i].page_content) <= s_size
        /\ \A k \in DocIndices :
              (Len(TextOfDoc(k)) = 2500 /\ s_size = 1000 /\ s_overlap = 200)
                  => Len(ChunksOf(k)) = 3

(***************************************************************************)
(* C6 amended: every chunk has at most chunk_size characters, whichever    *)
(* separator the break falls on; a document of L > chunk_size characters   *)
(* that contains no whitespace yields ceil((L - overlap) / (chunk_size -   *)
(* overlap)) chunks (3 for L=2500, chunk_size=1000, overlap=200), while a  *)
(* document with separators may yield another number.                      *)
(***************************************************************************)
C6_CeilingAndCount ==
    s_pc = "split" =>
        /\ \A i \in 1..Len(s_chunks) : Len(s_chunks[i].page_content) <= s_size
        /\ \A k \in LongDocs :
              HasNoWhitespace(TextOfDoc(k)) =>
                  Len(ChunksOf(k)) =
                      CeilDiv(Len(TextOfDoc(k)) - s_overlap, s_size - s_overlap)

\* A document without whitespace has been cut into at least three chunks,
\* one of them of exactly chunk_size characters, and a document with
\* separators into several chunks.
C6_Witness ==
    /\ s_pc = "split"
    /\ \E k \in LongDocs :
          /\ HasNoWhitespace(TextOfDoc(k))
          /\ Len(ChunksOf(k)) >= 3
          /\ \E i \in 1..Len(ChunksOf(k)) : Len(ChunkTexts(k)[i]) = s_size
    /\ s_overlap > 0

(***************************************************************************)
(* C7 as stated: for a document longer than chunk_size, consecutive        *)
(* chunks share exactly chunk_overlap characters (fewer only where the     *)
(* document has separators to break on), chunks of different documents     *)
(* share nothing, and the chunks concatenated with the overlaps removed    *)
(* give back the document's text.                                          *)
(***************************************************************************)
C7_OverlapAndReconstruction ==
    s_pc = "split" =>
        /\ \A k \in LongDocs :
              /\ \A i \in 1..(Len(ChunksOf(k)) - 1) :
                    \/ Overlap(ChunkTexts(k)[i], ChunkTexts(k)[i + 1]) = s_overlap
                    \/ /\ ~HasNoWhitespace(TextOfDoc(k))
                       /\ Overlap(ChunkTexts(k)[i], ChunkTexts(k)[i + 1]) <= s_overlap
              /\ Reconstruct(ChunkTexts(k)) = TextOfDoc(k)
        /\ \A k \in DocIndices :
              (k > 1 /\ ChunksOf(k - 1) # <<>> /\ ChunksOf(k) # <<>>)
                  => Overlap(ChunkTexts(k - 1)[Len(ChunksOf(k - 1))],
                             ChunkTexts(k)[1]) = 0

(***************************************************************************)
(* C7 amended: for a document longer than chunk_size (chunk_size >= 2),    *)
(* consecutive chunks share at most chunk_overlap characters, and exactly  *)
(* chunk_overlap when the document contains no whitespace; chunks of       *)
(* different documents share nothing; every chunk is a contiguous piece    *)
(* of its document, and the chunks concatenated with the overlaps removed  *)
(* give back the document's text except for whitespace dropped at chunk    *)
(* boundaries (all of it when the document contains no whitespace).        *)
(***************************************************************************)
C7_OverlapAtMostAndCoverage ==
    s_pc = "split" =>
        /\ \A k \in LongDocs :
              /\ \A i \in 1..(Len(ChunksOf(k)) - 1) :
                    /\ Overlap(ChunkTexts(k)[i], ChunkTexts(k)[i + 1]) <= s_overlap
                    /\ HasNoWhitespace(TextOfDoc(k)) =>
                          Overlap(ChunkTexts(k)[i], ChunkTexts(k)[i + 1]) = s_overlap
              /\ \A i \in 1..Len(ChunksOf(k)) :
                    IsSubstring(ChunkTexts(k)[i], TextOfDoc(k))
              /\ NonWhitespace(Reconstruct(ChunkTexts(k)))
                    = NonWhitespace(TextOfDoc(k))
              /\ HasNoWhitespace(TextOfDoc(k)) =>
                    Reconstruct(ChunkTexts(k)) = TextOfDoc(k)
        /\ \A k \in DocIndices :
              (k > 1 /\ ChunksOf(k - 1) # <<>> /\ ChunksOf(k) # <<>>)
                  => Overlap(ChunkTexts(k - 1)[Len(ChunksOf(k - 1))],
                             ChunkTexts(k)[1]) = 0

\* A long document with a separator has been cut at it: two consecutive
\* chunks share fewer than chunk_overlap characters and the separator is in
\* neither; a second document follows it.
C7_Witness ==
    /\ s_pc = "split"
    /\ Len(s_documents) = 2
    /\ s_overlap > 0
    /\ \E k \in LongDocs :
          /\ Len(ChunksOf(k)) >= 2
          /\ Overlap(ChunkTexts(k)[1], ChunkTexts(k)[2]) < s_overlap
          /\ Reconstruct(ChunkTexts(k)) # TextOfDoc(k)
    /\ ChunksOf(2) # <<>>

(***************************************************************************)
(* Vocabulary of the pipeline claims.                                      *)
(***************************************************************************)
\* The records this run has written.
RunRecords ==
    LET Mine(r) == r.id[1] = run
    IN SelectSeq(store, Mine)

IsPrefix(a, b) == Len(a) <= Len(b) /\ SubSeq(b, 1, Len(a)) = a

InMain == pc \notin {"off", "import", "raised_config"}
Did(stage) == \E i \in 1..Len(stages) : stages[i] = stage

\* A file in a directory whose name, or the file's own name, starts with a
\* dot (the root itself is not hidden).
HiddenEntry(tree, e) ==
    \/ NameOf(tree, e)[1] = "."
    \/ \E i \in 1..(Len(tree[e[1]].dirpath) - 1) :
          tree[e[1]].dirpath[i] = "/" /\ tree[e[1]].dirpath[i + 1] = "."

\* The files matching the glob whose parse fails, and those whose parse
\* succeeds.
Unparsable(tree) ==
    {e \in MdEntries(tree) : ~vault.parsed[PathOf(tree, e)].ok}
Parsable(tree) ==
    {e \in MdEntries(tree) : vault.parsed[PathOf(tree, e)].ok}
Visible(tree, es) == {e \in es : ~HiddenEntry(tree, e)}

\* What load returns with silent_errors=True.
SilentLoad == load(vault, RootPath, TRUE)
Sources(docs) == {docs[i].metadata.source : i \in 1..Len(docs)}

\* Nothing after the load has happened in this run.
NothingAfterLoad ==
    /\ chunks = <<>>
    /\ embed_calls = <<>>
    /\ store_calls = <<>>
    /\ RunRecords = <<>>
    /\ ~Did("split") /\ ~Did("embed") /\ ~Did("persist")

(***************************************************************************)
(* C1: when the vault path does not exist, main reports it and returns     *)
(* normally, and that run walks no directory, loads no document, splits    *)
(* nothing, calls no embedding and writes nothing to the store.            *)
(***************************************************************************)
C1_MissingVaultHalts ==
    (vault.kind = "absent" /\ InMain /\ pc # "main") =>
        /\ pc = "returned_invalid_path"
        /\ stages = <<>>
        /\ report = NoReport
        /\ documents = <<>>
        /\ NothingAfterLoad

\* A second invocation on a missing vault has returned as the first did.
C1_Witness ==
    /\ vault.kind = "absent"
    /\ pc = "returned_invalid_path"
    /\ run = 2

(***************************************************************************)
(* C2: when the loader returns no document, main reports it and returns    *)
(* normally, and in no state of that run has an embedding call or a call   *)
(* on the store been made.                                                 *)
(***************************************************************************)
C2_NoDocumentsHalts ==
    LET loaded == load(vault, RootPath, FALSE)
    IN (InMain /\ ~loaded.raised /\ loaded.documents = <<>>) =>
          /\ embed_calls = <<>>
          /\ store_calls = <<>>
          /\ RunRecords = <<>>
          /\ ~collection
          /\ Did("load") => (pc = "returned_no_documents" /\ NothingAfterLoad)

\* A vault that holds files, none of them a visible markdown file, has been
\* scanned and loaded, and main has returned.
C2_Witness ==
    /\ pc = "returned_no_documents"
    /\ report.totalFiles > 0
    /\ documents = <<>>

(***************************************************************************)
(* C3 as stated: when an embedding call fails, the run terminates          *)
(* abnormally without retrying it, and the store holds no record of that   *)
(* run.                                                                    *)
(***************************************************************************)
C3_FailureLeavesNoRecord ==
    (\E i \in 1..Len(embed_calls) : embed_calls[i] = "failed") =>
        /\ pc = "raised_embed"
        /\ \A i \in 1..(Len(embed_calls) - 1) : embed_calls[i] = "ok"
        /\ RunRecords = <<>>

(***************************************************************************)
(* C3 amended: when an embedding call fails, the run terminates abnormally *)
(* without retrying it, and no chunk of the batch whose call failed, nor   *)
(* of a later batch, is persisted; the chunks of the batches added before  *)
(* it (a run with more chunks than the store's maximum batch size is added *)
(* in several batches) stay in the store.                                  *)
(***************************************************************************)
C3_FailureKeepsEarlierBatches ==
    (\E i \in 1..Len(embed_calls) : embed_calls[i] = "failed") =>
        /\ pc = "raised_embed"
        /\ \A i \in 1..(Len(embed_calls) - 1) : embed_calls[i] = "ok"
        /\ LET done == (Len(embed_calls) - 1) * max_batch_size
           IN /\ done < Len(chunks)
              /\ RunRecords = [k \in 1..done |-> Record(run, k, chunks[k])]
        /\ store = store0 \o RunRecords

\* The embedding call of a later batch has failed after an earlier batch
\* was written.
C3_Witness ==
    /\ pc = "raised_embed"
    /\ RunRecords # <<>>
    /\ Len(RunRecords) < Len(chunks)

C9_AppendsOneRecordPerChunk ==
    LET Copies(c) ==
            Cardinality({i \in 1..Len(store) :
                            /\ store[i].page_content = c.page_content
                            /\ store[i].metadata = c.metadata})
        Occurrences(c) == Cardinality({k \in 1..Len(chunks) : chunks[k] = c})
        \* Every earlier run completed: it wrote all its chunks (the vault is
        \* unchanged, so they are this run's chunks).
        CompletedBefore ==
            \A r \in 1..(run - 1) :
                Cardinality({i \in 1..Len(store) : store[i].id[1] = r})
                  = Len(chunks)
    IN InMain =>
          /\ IsPrefix(store0, store)
          /\ \A i, j \in 1..Len(store) : i # j => store[i].id # store[j].id
          /\ pc = "completed" =>
                /\ collection
                /\ store = store0
                             \o [k \in 1..Len(chunks) |->
                                    Record(run, k, chunks[k])]
                /\ CompletedBefore =>
                      \A k \in 1..Len(chunks) :
                          Copies(chunks[k]) = run * Occurrences(chunks[k])
                /\ (run = 1 /\ Sources(documents) = {path_join(RootPath, AMd)}
                      /\ Len(documents[1].page_content) = 600)
                      => Len(store) = 1

\* The vault has been ingested twice, each run adding the same several
\* chunks.
C9_Witness ==
    /\ pc = "completed"
    /\ run = 2
    /\ Len(chunks) >= 2
    /\ Len(store) = 2 * Len(chunks)

(***************************************************************************)
(* C10 as stated: the stages of a run execute in the order scan, load,     *)
(* split, embed, persist, each at most once; no chunk is embedded before   *)
(* the documents are loaded and split, and no record is written before     *)
(* every chunk of the run is embedded.                                     *)
(***************************************************************************)
C10_EachStageOnce ==
    InMain =>
        /\ IsPrefix(stages, <<"scan", "load", "split", "embed", "persist">>)
        /\ RunRecords # <<>> =>
              Len(embed_calls) * max_batch_size >= Len(chunks)

(***************************************************************************)
(* C10 amended: a run executes scan, load and split once each, in that     *)
(* order, and then embeds and persists the chunks batch by batch (one      *)
(* batch when the chunks fit the store's maximum batch size): no chunk is  *)
(* embedded before every document is loaded and split, each batch is       *)
(* embedded once, and a record is written only after every chunk of its    *)
(* own batch is embedded.                                                  *)
(***************************************************************************)
C10_StagesInOrderBatchwise ==
    InMain =>
        /\ IsPrefix(SubSeq(stages, 1, Min(3, Len(stages))),
                    <<"scan", "load", "split">>)
        /\ \A i \in 4..Len(stages) :
              stages[i] = (IF i % 2 = 0 THEN "embed" ELSE "persist")
        /\ Did("embed") =>
              /\ documents # <<>>
              /\ Sources(chunks) = Sources(documents)
              /\ \A k \in 1..Len(chunks) :
                    Len(chunks[k].page_content) <= main_chunk_size
        /\ Len(embed_calls) * max_batch_size < Len(chunks) + max_batch_size
        /\ LET embedded ==
                   Cardinality({i \in 1..Len(embed_calls) :
                                   embed_calls[i] = "ok"}) * max_batch_size
           IN /\ Len(RunRecords) <= embedded
              /\ \A k \in 1..Len(RunRecords) :
                    RunRecords[k] = Record(run, k, chunks[k])

\* A run whose chunks exceed the maximum batch size has completed: it
\* embedded and persisted twice.
C10_Witness ==
    /\ pc = "completed"
    /\ stages = <<"scan", "load", "split", "embed", "persist", "embed",
                  "persist">>

====
